---- MODULE Spec2Model ----
(***************************************************************************)
(* State machine of the todo list controller of src/src/App.jsx (component *)
(* App) together with the remote todo service it talks to over fetch.      *)
(*                                                                         *)
(* Every handler of the component is one action: it runs to its first      *)
(* await (or to its end) without interleaving.  A fetch is a request       *)
(* record in reqs: it is "sent", then the remote service (or the           *)
(* transport) settles it, then the continuation after the await runs as    *)
(* its own action.  Strings are sequences of one-character strings so that *)
(* String.prototype.trim is computed, not assumed.                         *)
(***************************************************************************)
EXTENDS Integers, Sequences, FiniteSets, TLC

(* ------------------------------ bounds --------------------------------- *)
\* Longest text the user types into an input.
MaxTitleLen == 2
\* Items held by the remote service when the page is opened.
InitItems == 2
\* Items the remote service is asked to create.
MaxCreates == 1
\* Requests in flight at the same time.
MaxInFlight == 2
\* User events: keystrokes into the input, filter clicks and operations.
MaxOps == 3

(* ------------------------------ strings -------------------------------- *)
Chars == {"a", " "}

RECURSIVE StringsUpTo(_)
StringsUpTo(n) ==
    IF n = 0 THEN {<<>>}
    ELSE LET shorter == StringsUpTo(n - 1)
         IN  shorter \cup {Append(s, c) : s \in {x \in shorter : Len(x) = n - 1}, c \in Chars}

Drafts == StringsUpTo(MaxTitleLen)

RECURSIVE TrimStart(_)
TrimStart(s) == IF s # <<>> /\ Head(s) = " " THEN TrimStart(Tail(s)) ELSE s

RECURSIVE TrimEnd(_)
TrimEnd(s) ==
    IF s # <<>> /\ s[Len(s)] = " " THEN TrimEnd(SubSeq(s, 1, Len(s) - 1)) ELSE s

\* A trim that forgets to trim.
TrimNothing(s) == s

\* String.prototype.trim
Trim(s) == TrimEnd(TrimStart(s))

(* --------------------------- error messages ---------------------------- *)
NoError == ""
LoadFailed == "Failed to load todos"
AddFailed == "Failed to add todo"
UpdateFailed == "Failed to update todo"
RenameFailed == "Failed to rename todo"
DeleteFailed == "Failed to delete todo"
ClearFailed == "Failed to clear completed"
\* e.message of the TypeError a rejected fetch carries: the text is the
\* runtime's own (Chromium's and WebKit's here), never one of the handlers'.
RejectMessages == {"Failed to fetch", "Load failed"}

(* ------------------------------- state --------------------------------- *)
VARIABLES
    todos,      \* useState([]): the Collection
    newTitle,   \* useState(''): the input draft
    filter,     \* useState('all')
    loading,    \* useState(false)
    error,      \* useState('')
    mounted,    \* whether the mount effect has run
    reqs,       \* the fetches whose continuation has not run yet
    server,     \* the remote service's list of todos
    created,    \* how many items the remote service has created
    ops,        \* how many user events have been handled
    last,       \* the handler that ran last and the request it was about
    rows        \* the state of the TodoRow mounted under each key

vars == <<todos, newTitle, filter, loading, error, mounted, reqs, server, created, ops, last,
          rows>>

Item(i, t, c) == [id |-> i, title |-> t, completed |-> c]

\* The fields of a request that a given kind does not use keep these values.
NoReq ==
    [rid |-> 0, kind |-> "none", id |-> 0, title |-> <<>>, completed |-> FALSE,
     phase |-> "none", msg |-> NoError, data |-> <<>>, prev |-> <<>>,
     ids |-> <<>>, st |-> <<>>, cause |-> "none", base |-> FALSE, clean |-> FALSE]

FreeRids == (1..MaxInFlight) \ {r.rid : r \in reqs}
NewRid == CHOOSE n \in FreeRids : \A m \in FreeRids : n <= m

Event(o, r) == [op |-> o, req |-> r]

InitStores ==
    {[i \in 1..InitItems |-> Item(i, <<"a">>, c[i])] : c \in [1..InitItems -> BOOLEAN]}

Init ==
    /\ todos = <<>>
    /\ newTitle = <<>>
    /\ filter = "all"
    /\ loading = FALSE
    /\ error = NoError
    /\ mounted = FALSE
    /\ reqs = {}
    /\ server \in InitStores
    /\ created = 0
    /\ ops = 0
    /\ last = Event("init", NoReq)
    /\ rows = <<>>

(* --------------------------- collection updates ------------------------ *)
\* A filter that lets every row through.
EveryRow(ts) == ts

\* todos.filter(t => t.completed)
CompletedOf(ts) == SelectSeq(ts, LAMBDA t : t.completed)

\* A filter for the active rows that hands them over last first.
ActiveBackwards(ts) ==
    LET a == SelectSeq(ts, LAMBDA t : ~t.completed)
    IN  [i \in 1..Len(a) |-> a[Len(a) + 1 - i]]

\* todos.filter(t => !t.completed)
ActiveOf(ts) == SelectSeq(ts, LAMBDA t : ~t.completed)

\* useMemo at the top of App
filtered ==
    IF filter = "active" THEN ActiveOf(todos)
    ELSE IF filter = "completed" THEN CompletedOf(todos)
    ELSE todos

remaining == Len(ActiveOf(todos))

\* A toggle that writes the flag into every row.
SetCompletedEverywhere(prev, id, c) ==
    [i \in 1..Len(prev) |-> [prev[i] EXCEPT !.completed = c]]

\* prev.map(t => t.id === id ? { ...t, completed } : t)
SetCompleted(prev, id, c) ==
    [i \in 1..Len(prev) |->
        IF prev[i].id = id THEN [prev[i] EXCEPT !.completed = c] ELSE prev[i]]

\* A revert that puts the item back when it finds no row with the id.
RevertOrRestore(prev, id, c) ==
    IF \E i \in 1..Len(prev) : prev[i].id = id
    THEN SetCompleted(prev, id, ~c)
    ELSE Append(prev, Item(id, <<>>, ~c))

\* prev.map(t => t.id === id ? { ...t, completed: !completed } : t)
RevertCompleted(prev, id, c) == SetCompleted(prev, id, ~c)

\* A rename that writes the title into every row.
SetTitleEverywhere(prev, id, t) == [i \in 1..Len(prev) |-> [prev[i] EXCEPT !.title = t]]

\* prev.map(t => t.id === id ? { ...t, title: title.trim() } : t)
SetTitle(prev, id, t) ==
    [i \in 1..Len(prev) |->
        IF prev[i].id = id THEN [prev[i] EXCEPT !.title = t] ELSE prev[i]]

\* prev.filter(t => t.id !== id)
RemoveId(prev, id) == SelectSeq(prev, LAMBDA t : t.id # id)

\* An insert at the wrong end.
PutLast(item, prev) == Append(prev, item)

\* [created, ...prev]
Prepend(item, prev) == <<item>> \o prev

\* disabled={loading || !newTitle.trim()} of the Add button: a form whose
\* submit button is disabled is submitted neither by a click nor by Enter.
AddDisabled == loading \/ Trim(newTitle) = <<>>

(* ------------------------------- rendering ----------------------------- *)
\* The keys of filtered.map(todo => <TodoRow key={todo.id} todo={todo} />).
IdsIn(view) == {view[i].id : i \in 1..Len(view)}

\* The todo.title a TodoRow can be handed: with two elements under one key
\* (React leaves open which one the mounted row gets) either one's.
TitlesIn(view, id) == {view[i].title : i \in {j \in 1..Len(view) : view[j].id = id}}

PropsOf(view) ==
    {f \in [IdsIn(view) -> {view[i].title : i \in 1..Len(view)}] :
        \A id \in IdsIn(view) : f[id] \in TitlesIn(view, id)}

\* useState(false), useState(todo.title) of a TodoRow that mounts; shown is
\* the todo.title of its last render, which the effect's dependency array
\* [todo.title] is compared with.
MountRow(t) == [editing |-> FALSE, title |-> t, shown |-> t]

\* An effect that runs only on mount: useEffect(..., []).
EffectOnMountOnly(row, t) == [row EXCEPT !.shown = t]

\* useEffect(() => setTitle(todo.title), [todo.title]) of a row rendered
\* again with todo.title = t
Effect(row, t) == IF t # row.shown THEN [row EXCEPT !.title = t, !.shown = t] ELSE row

\* The render that follows a handler which left the mounted rows in state
\* mid: a row whose key is no longer in the view unmounts and loses its
\* state, a new key mounts a row, a kept row runs its effect.
Render(mid) ==
    \E props \in PropsOf(filtered') :
        rows' = [id \in DOMAIN props |->
                    IF id \in DOMAIN mid THEN Effect(mid[id], props[id])
                    ELSE MountRow(props[id])]

(* ------------------------------ bookkeeping ---------------------------- *)
CanIssue == FreeRids # {}

TogglesOn(id) == {r \in reqs : r.kind = "toggle" /\ r.id = id}

\* A toggle or rename in flight is clean while nothing but its own handler
\* has written the rows it is about: no list loaded or restored over them,
\* no later rename of the same id, no created item put in under the same id.
Disturb(rs) == {[r EXCEPT !.clean = FALSE] : r \in rs}
DisturbId(rs, id) == {IF r.id = id THEN [r EXCEPT !.clean = FALSE] ELSE r : r \in rs}

\* The request fetchTodos issues.
LoadReq(rid, cause) ==
    [NoReq EXCEPT !.rid = rid, !.kind = "load", !.phase = "sent", !.cause = cause]

(* ------------------------------ user events ---------------------------- *)
\* A user event is handled once the mount effect has run.
UserTurn == mounted /\ ops < MaxOps /\ ops' = ops + 1

\* useEffect(() => { fetchTodos() }, [])
Mount ==
    /\ ~mounted
    /\ mounted' = TRUE
    /\ loading' = TRUE
    /\ error' = NoError
    /\ reqs' = reqs \cup {LoadReq(NewRid, "mount")}
    /\ last' = Event("mount", NoReq)
    /\ UNCHANGED <<todos, newTitle, filter, server, created, ops>>

\* onChange of the input
SetNewTitle(v) ==
    /\ UserTurn
    /\ newTitle' = v
    /\ last' = Event("ui", NoReq)
    /\ UNCHANGED <<todos, filter, loading, error, mounted, reqs, server, created>>

\* the three filter buttons
SetFilter(f) ==
    /\ UserTurn
    /\ filter' = f
    /\ last' = Event("ui", NoReq)
    /\ UNCHANGED <<todos, newTitle, loading, error, mounted, reqs, server, created>>

\* addTodo, up to its await
AddTodo ==
    LET ev == Event("add", [NoReq EXCEPT !.title = newTitle])
    IN  IF Trim(newTitle) = <<>>
        THEN /\ UserTurn
             /\ last' = ev
             /\ UNCHANGED <<todos, newTitle, filter, loading, error, mounted, reqs,
                            server, created>>
        ELSE /\ UserTurn
             /\ CanIssue
             /\ loading' = TRUE
             /\ error' = NoError
             /\ reqs' = reqs \cup {[NoReq EXCEPT !.rid = NewRid, !.kind = "create",
                                       !.phase = "sent", !.title = Trim(newTitle)]}
             /\ last' = ev
             /\ UNCHANGED <<todos, newTitle, filter, mounted, server, created>>

\* the form is submitted through its enabled Add button
Submit == ~AddDisabled /\ AddTodo

\* onSubmit called whatever the button's state (a dispatched submit event)
SubmitEvent == AddTodo

\* toggleTodo, up to its await; the checkbox of a displayed row hands over
\* the negation of the flag it shows
ToggleTodo(id, c) ==
    LET same == TogglesOn(id)
        r == [NoReq EXCEPT !.rid = NewRid, !.kind = "toggle", !.phase = "sent",
                 !.id = id, !.completed = c,
                 !.base = IF same # {} THEN (CHOOSE q \in same : TRUE).base ELSE ~c,
                 !.clean = \A q \in same : q.clean]
    IN  /\ UserTurn
        /\ CanIssue
        /\ error' = NoError
        /\ todos' = SetCompleted(todos, id, c)
        /\ reqs' = reqs \cup {r}
        /\ last' = Event("toggle", r)
        /\ UNCHANGED <<newTitle, filter, loading, mounted, server, created>>

\* renameTodo, up to its await
RenameTodo(id, title) ==
    IF Trim(title) = <<>>
    THEN /\ UserTurn
         /\ last' = Event("rename", [NoReq EXCEPT !.id = id, !.title = title])
         /\ UNCHANGED <<todos, newTitle, filter, loading, error, mounted, reqs,
                        server, created>>
    ELSE LET r == [NoReq EXCEPT !.rid = NewRid, !.kind = "rename", !.phase = "sent",
                      !.id = id, !.title = Trim(title), !.clean = TRUE]
         IN  /\ UserTurn
             /\ CanIssue
             /\ error' = NoError
             /\ todos' = SetTitle(todos, id, Trim(title))
             /\ reqs' = DisturbId({q \in reqs : q.kind = "rename"}, id)
                          \cup {q \in reqs : q.kind # "rename"} \cup {r}
             /\ last' = Event("rename", [r EXCEPT !.title = title])
             /\ UNCHANGED <<newTitle, filter, loading, mounted, server, created>>

\* A deleteTodo that leaves the error of an earlier operation on display.
DeleteTodoKeepingError(id) ==
    LET r == [NoReq EXCEPT !.rid = NewRid, !.kind = "delete", !.phase = "sent", !.id = id]
    IN  /\ UserTurn
        /\ CanIssue
        /\ todos' = RemoveId(todos, id)
        /\ reqs' = reqs \cup {r}
        /\ last' = Event("delete", r)
        /\ UNCHANGED <<newTitle, filter, loading, error, mounted, server, created>>

\* deleteTodo, up to its await
DeleteTodo(id) ==
    LET r == [NoReq EXCEPT !.rid = NewRid, !.kind = "delete", !.phase = "sent", !.id = id]
    IN  /\ UserTurn
        /\ CanIssue
        /\ error' = NoError
        /\ todos' = RemoveId(todos, id)
        /\ reqs' = reqs \cup {r}
        /\ last' = Event("delete", r)
        /\ UNCHANGED <<newTitle, filter, loading, mounted, server, created>>

\* clearCompleted, up to its await
ClearCompleted ==
    LET completedTodos == CompletedOf(todos)
        toDelete == [i \in 1..Len(completedTodos) |-> completedTodos[i].id]
    IN  IF Len(completedTodos) = 0
        THEN /\ UserTurn
             /\ last' = Event("clear", NoReq)
             /\ UNCHANGED <<todos, newTitle, filter, loading, error, mounted, reqs,
                            server, created>>
        ELSE LET r == [NoReq EXCEPT !.rid = NewRid, !.kind = "clear", !.phase = "sent",
                          !.prev = todos, !.ids = toDelete,
                          !.st = [i \in 1..Len(toDelete) |-> "sent"]]
             IN  /\ UserTurn
                 /\ CanIssue
                 /\ error' = NoError
                 /\ todos' = ActiveOf(todos)
                 /\ reqs' = reqs \cup {r}
                 /\ last' = Event("clear", r)
                 /\ UNCHANGED <<newTitle, filter, loading, mounted, server, created>>

(* --------------------------- the remote service ------------------------ *)
Sent(kinds) == {r \in reqs : r.kind \in kinds /\ r.phase = "sent"}

Settle(r, r2) == (reqs \ {r}) \cup {r2}

HasId(ts, id) == \E i \in 1..Len(ts) : ts[i].id = id

ServerStep == Event("server", NoReq)

\* GET /api/todos answered with the list
ServerList(r) ==
    /\ reqs' = Settle(r, [r EXCEPT !.phase = "ok", !.data = server])
    /\ last' = ServerStep
    /\ UNCHANGED <<todos, newTitle, filter, loading, error, mounted, server, created, ops>>

\* POST /api/todos answered with the created item
ServerCreate(r) ==
    LET item == Item(InitItems + created + 1, r.title, FALSE)
    IN  /\ created < MaxCreates
        /\ server' = Append(server, item)
        /\ created' = created + 1
        /\ reqs' = Settle(r, [r EXCEPT !.phase = "ok", !.data = <<item>>])
        /\ last' = ServerStep
        /\ UNCHANGED <<todos, newTitle, filter, loading, error, mounted, ops>>

\* PATCH /api/todos/{id} applied
ServerUpdate(r) ==
    /\ HasId(server, r.id)
    /\ server' = IF r.kind = "toggle" THEN SetCompleted(server, r.id, r.completed)
                 ELSE SetTitle(server, r.id, r.title)
    /\ reqs' = Settle(r, [r EXCEPT !.phase = "ok"])
    /\ last' = ServerStep
    /\ UNCHANGED <<todos, newTitle, filter, loading, error, mounted, created, ops>>

\* DELETE /api/todos/{id} applied
ServerDelete(r) ==
    /\ HasId(server, r.id)
    /\ server' = RemoveId(server, r.id)
    /\ reqs' = Settle(r, [r EXCEPT !.phase = "ok"])
    /\ last' = ServerStep
    /\ UNCHANGED <<todos, newTitle, filter, loading, error, mounted, created, ops>>

\* any request answered with a status outside 200..299: res.ok is false
ServerRefuse(r) ==
    /\ reqs' = Settle(r, [r EXCEPT !.phase = "httpError"])
    /\ last' = ServerStep
    /\ UNCHANGED <<todos, newTitle, filter, loading, error, mounted, server, created, ops>>

\* the request never reaches the service: fetch rejects
TransportFail(r, m) ==
    /\ reqs' = Settle(r, [r EXCEPT !.phase = "netError", !.msg = m])
    /\ last' = ServerStep
    /\ UNCHANGED <<todos, newTitle, filter, loading, error, mounted, server, created, ops>>

\* One of the deletes of a clearCompleted is settled.  Once the catch block
\* has run ("settled") the deletes still out only have to reach the service.
ClearSettle(r, i, outcome) ==
    LET r2 == [r EXCEPT !.st[i] = outcome]
    IN  IF r.phase = "settled" /\ \A j \in 1..Len(r2.st) : r2.st[j] # "sent"
        THEN reqs \ {r}
        ELSE Settle(r, r2)

ClearTargets(r) == {i \in 1..Len(r.st) : r.st[i] = "sent"}

ServerClearDelete(r, i) ==
    /\ HasId(server, r.ids[i])
    /\ server' = RemoveId(server, r.ids[i])
    /\ reqs' = ClearSettle(r, i, "ok")
    /\ last' = ServerStep
    /\ UNCHANGED <<todos, newTitle, filter, loading, error, mounted, created, ops>>

ServerClearRefuse(r, i) ==
    /\ reqs' = ClearSettle(r, i, "httpError")
    /\ last' = ServerStep
    /\ UNCHANGED <<todos, newTitle, filter, loading, error, mounted, server, created, ops>>

ClearTransportFail(r, i) ==
    /\ reqs' = ClearSettle(r, i, "netError")
    /\ last' = ServerStep
    /\ UNCHANGED <<todos, newTitle, filter, loading, error, mounted, server, created, ops>>

(* ------------------------ continuations after await -------------------- *)
Answered(kind) == {r \in reqs : r.kind = kind /\ r.phase \in {"ok", "httpError", "netError"}}

\* What the catch block finds in e.message.
Message(r, thrown) == IF r.phase = "httpError" THEN thrown ELSE r.msg

\* A fetchTodos that forgets setLoading(false) when the Load fails.
LoadDoneKeepsLoading(r) ==
    /\ IF r.phase = "ok"
       THEN /\ todos' = r.data
            /\ reqs' = Disturb(reqs \ {r})
            /\ last' = Event("loadOk", r)
            /\ loading' = FALSE
            /\ UNCHANGED error
       ELSE /\ error' = Message(r, LoadFailed)
            /\ reqs' = reqs \ {r}
            /\ last' = Event("loadFail", r)
            /\ UNCHANGED <<todos, loading>>
    /\ UNCHANGED <<newTitle, filter, mounted, server, created, ops>>

\* fetchTodos after its await (the event keeps the Collection it replaced)
LoadDone(r) ==
    /\ IF r.phase = "ok"
       THEN /\ todos' = r.data
            /\ reqs' = Disturb(reqs \ {r})
            /\ last' = Event("loadOk", [r EXCEPT !.prev = todos])
            /\ UNCHANGED error
       ELSE /\ error' = Message(r, LoadFailed)
            /\ reqs' = reqs \ {r}
            /\ last' = Event("loadFail", r)
            /\ UNCHANGED todos
    /\ loading' = FALSE
    /\ UNCHANGED <<newTitle, filter, mounted, server, created, ops>>

\* addTodo after its await
AddDone(r) ==
    /\ IF r.phase = "ok"
       THEN /\ todos' = Prepend(r.data[1], todos)
            /\ newTitle' = <<>>
            /\ reqs' = DisturbId(reqs \ {r}, r.data[1].id)
            /\ last' = Event("addOk", r)
            /\ UNCHANGED error
       ELSE /\ error' = Message(r, AddFailed)
            /\ reqs' = reqs \ {r}
            /\ last' = Event("addFail", r)
            /\ UNCHANGED <<todos, newTitle>>
    /\ loading' = FALSE
    /\ UNCHANGED <<filter, mounted, server, created, ops>>

\* toggleTodo after its await
ToggleDone(r) ==
    /\ IF r.phase = "ok"
       THEN /\ reqs' = DisturbId({q \in reqs \ {r} : q.kind = "toggle"}, r.id)
                         \cup {q \in reqs \ {r} : q.kind # "toggle"}
            /\ last' = Event("toggleOk", r)
            /\ UNCHANGED <<todos, error>>
       ELSE /\ error' = Message(r, UpdateFailed)
            /\ todos' = RevertCompleted(todos, r.id, r.completed)
            /\ reqs' = reqs \ {r}
            /\ last' = Event("toggleFail", r)
    /\ UNCHANGED <<newTitle, filter, loading, mounted, server, created, ops>>

\* renameTodo after its await.  Its catch block runs setError(e.message) and
\* then calls fetchTodos, which runs setLoading(true); setError('') and
\* issues its fetch before the handler returns: the state the handler
\* leaves has the error of the last of the two setError calls.
RenameDone(r) ==
    /\ IF r.phase = "ok"
       THEN /\ reqs' = reqs \ {r}
            /\ last' = Event("renameOk", r)
            /\ UNCHANGED <<error, loading>>
       ELSE /\ error' = NoError
            /\ loading' = TRUE
            /\ reqs' = Settle(r, LoadReq(r.rid, "rename"))
            /\ last' = Event("renameFail", r)
    /\ UNCHANGED <<todos, newTitle, filter, mounted, server, created, ops>>

\* deleteTodo after its await; its catch block is the one of renameTodo
DeleteDone(r) ==
    /\ IF r.phase = "ok"
       THEN /\ reqs' = reqs \ {r}
            /\ last' = Event("deleteOk", r)
            /\ UNCHANGED <<error, loading>>
       ELSE /\ error' = NoError
            /\ loading' = TRUE
            /\ reqs' = Settle(r, LoadReq(r.rid, "delete"))
            /\ last' = Event("deleteFail", r)
    /\ UNCHANGED <<todos, newTitle, filter, mounted, server, created, ops>>

\* clearCompleted after Promise.all resolved: every fetch was answered
ClearResolved(r) ==
    /\ r.phase = "sent"
    /\ \A i \in 1..Len(r.st) : r.st[i] \in {"ok", "httpError"}
    /\ reqs' = reqs \ {r}
    /\ last' = Event("clearOk", r)
    /\ UNCHANGED <<todos, newTitle, filter, loading, error, mounted, server, created, ops>>

\* clearCompleted's catch block: Promise.all rejects with the first fetch
\* that rejects, whatever has become of the others
ClearRejected(r) ==
    /\ r.phase = "sent"
    /\ \E i \in 1..Len(r.st) : r.st[i] = "netError"
    /\ error' = ClearFailed
    /\ todos' = r.prev
    /\ reqs' = Disturb(IF \E i \in 1..Len(r.st) : r.st[i] = "sent"
                       THEN Settle(r, [r EXCEPT !.phase = "settled"])
                       ELSE reqs \ {r})
    /\ last' = Event("clearFail", r)
    /\ UNCHANGED <<newTitle, filter, loading, mounted, server, created, ops>>

(* ------------------------------ the row editor ------------------------- *)
\* An event of the row under key id, with the draft the row held when it came.
RowEvent(o, id) == Event(o, [NoReq EXCEPT !.id = id, !.title = rows[id].title])

Editing == {id \in DOMAIN rows : rows[id].editing}

AppUnchanged ==
    UNCHANGED <<todos, newTitle, filter, loading, error, mounted, reqs, server, created>>

\* onClick of the title button.  The input of a row being edited has the
\* focus (autoFocus): a click elsewhere reaches its target after that input
\* was blurred.
StartEdit(id) ==
    /\ Editing = {}
    /\ last' = RowEvent("edit", id)
    /\ AppUnchanged
    /\ UNCHANGED ops
    /\ Render([rows EXCEPT ![id].editing = TRUE])

\* onChange of the row's input
TypeDraft(id, v) ==
    /\ rows[id].editing
    /\ UserTurn
    /\ last' = RowEvent("type", id)
    /\ AppUnchanged
    /\ Render([rows EXCEPT ![id].title = v])

\* A cancel that keeps what was typed.
CancelKeepingDraft(row) == [row EXCEPT !.editing = FALSE]

\* setTitle(todo.title); setEditing(false)
Cancel(row) == [row EXCEPT !.title = row.shown, !.editing = FALSE]

\* A confirm that stays in the editing state.
ConfirmStaysEditing(row) == row

\* setEditing(false) of the Enter branch
Confirm(row) == [row EXCEPT !.editing = FALSE]

\* handleKey, Escape
Escape(id) ==
    /\ rows[id].editing
    /\ last' = RowEvent("escape", id)
    /\ AppUnchanged
    /\ UNCHANGED ops
    /\ Render([rows EXCEPT ![id] = Cancel(@)])

\* onBlur of the row's input
Blur(id) ==
    /\ rows[id].editing
    /\ last' = RowEvent("blur", id)
    /\ AppUnchanged
    /\ UNCHANGED ops
    /\ Render([rows EXCEPT ![id] = Cancel(@)])

\* handleKey, Enter: onRename(title), then setEditing(false).  The render
\* takes the focused input out of the document; whether a blur event
\* reaches onBlur then is the browser's and React's choice (blurred).
Enter(id, blurred) ==
    /\ rows[id].editing
    /\ RenameTodo(id, rows[id].title)
    /\ Render([rows EXCEPT ![id] = IF blurred THEN Cancel(Confirm(@)) ELSE Confirm(@)])

(* ---------------------------- specifications --------------------------- *)
\* The rows on display: one TodoRow per element of filtered.
Rows == {filtered[i] : i \in 1..Len(filtered)}

Filters == {"all", "active", "completed"}

Fetches == {"load", "create", "toggle", "rename", "delete"}

Clears == {r \in reqs : r.kind = "clear"}

\* The page as a user drives it.
Next ==
    \/ Mount /\ Render(rows)
    \/ \E v \in Drafts : SetNewTitle(v) /\ Render(rows)
    \/ \E f \in Filters : SetFilter(f) /\ Render(rows)
    \/ Submit /\ Render(rows)
    \/ \E t \in Rows : ToggleTodo(t.id, ~t.completed) /\ Render(rows)
    \/ \E t \in Rows, d \in Drafts : RenameTodo(t.id, d) /\ Render(rows)
    \/ \E t \in Rows : DeleteTodo(t.id) /\ Render(rows)
    \/ ClearCompleted /\ Render(rows)
    \/ \E r \in Sent({"load"}) : ServerList(r) /\ Render(rows)
    \/ \E r \in Sent({"create"}) : ServerCreate(r) /\ Render(rows)
    \/ \E r \in Sent({"toggle", "rename"}) : ServerUpdate(r) /\ Render(rows)
    \/ \E r \in Sent({"delete"}) : ServerDelete(r) /\ Render(rows)
    \/ \E r \in Sent(Fetches) : ServerRefuse(r) /\ Render(rows)
    \/ \E r \in Sent(Fetches), m \in RejectMessages : TransportFail(r, m) /\ Render(rows)
    \/ \E r \in Clears : \E i \in ClearTargets(r) : ServerClearDelete(r, i) /\ Render(rows)
    \/ \E r \in Clears : \E i \in ClearTargets(r) : ServerClearRefuse(r, i) /\ Render(rows)
    \/ \E r \in Clears : \E i \in ClearTargets(r) : ClearTransportFail(r, i) /\ Render(rows)
    \/ \E r \in Answered("load") : LoadDone(r) /\ Render(rows)
    \/ \E r \in Answered("create") : AddDone(r) /\ Render(rows)
    \/ \E r \in Answered("toggle") : ToggleDone(r) /\ Render(rows)
    \/ \E r \in Answered("rename") : RenameDone(r) /\ Render(rows)
    \/ \E r \in Answered("delete") : DeleteDone(r) /\ Render(rows)
    \/ \E r \in Clears : ClearResolved(r) /\ Render(rows)
    \/ \E r \in Clears : ClearRejected(r) /\ Render(rows)

Spec == Init /\ [][Next]_vars

\* The same, with onSubmit also called while the Add button is disabled.
NextForm ==
    \/ Next
    \/ SubmitEvent /\ Render(rows)

SpecForm == Init /\ [][NextForm]_vars

\* The list with the rows' inputs driven key by key: renameTodo is called
\* by the Enter of a row that is being edited, with the draft of that row.
\* The form that adds items is left alone.
NextRow ==
    \/ Mount /\ Render(rows)
    \/ \E f \in Filters : SetFilter(f) /\ Render(rows)
    \/ \E t \in Rows : ToggleTodo(t.id, ~t.completed) /\ Render(rows)
    \/ \E t \in Rows : DeleteTodo(t.id) /\ Render(rows)
    \/ ClearCompleted /\ Render(rows)
    \/ \E r \in Sent({"load"}) : ServerList(r) /\ Render(rows)
    \/ \E r \in Sent({"toggle", "rename"}) : ServerUpdate(r) /\ Render(rows)
    \/ \E r \in Sent({"delete"}) : ServerDelete(r) /\ Render(rows)
    \/ \E r \in Sent(Fetches) : ServerRefuse(r) /\ Render(rows)
    \/ \E r \in Sent(Fetches), m \in RejectMessages : TransportFail(r, m) /\ Render(rows)
    \/ \E r \in Clears : \E i \in ClearTargets(r) : ServerClearDelete(r, i) /\ Render(rows)
    \/ \E r \in Clears : \E i \in ClearTargets(r) : ServerClearRefuse(r, i) /\ Render(rows)
    \/ \E r \in Clears : \E i \in ClearTargets(r) : ClearTransportFail(r, i) /\ Render(rows)
    \/ \E r \in Answered("load") : LoadDone(r) /\ Render(rows)
    \/ \E r \in Answered("toggle") : ToggleDone(r) /\ Render(rows)
    \/ \E r \in Answered("rename") : RenameDone(r) /\ Render(rows)
    \/ \E r \in Answered("delete") : DeleteDone(r) /\ Render(rows)
    \/ \E r \in Clears : ClearResolved(r) /\ Render(rows)
    \/ \E r \in Clears : ClearRejected(r) /\ Render(rows)
    \/ \E id \in DOMAIN rows : StartEdit(id)
    \/ \E id \in DOMAIN rows, v \in Drafts : TypeDraft(id, v)
    \/ \E id \in DOMAIN rows, blurred \in BOOLEAN : Enter(id, blurred)
    \/ \E id \in DOMAIN rows : Escape(id)
    \/ \E id \in DOMAIN rows : Blur(id)

SpecRow == Init /\ [][NextRow]_vars

\* A Load or a Create in flight is answered, or its fetch rejects.
LoadOrCreateResolves ==
    \/ \E r \in Sent({"load"}) : ServerList(r) /\ Render(rows)
    \/ \E r \in Sent({"create"}) : ServerCreate(r) /\ Render(rows)
    \/ \E r \in Sent({"load", "create"}) : ServerRefuse(r) /\ Render(rows)
    \/ \E r \in Sent({"load", "create"}), m \in RejectMessages :
          TransportFail(r, m) /\ Render(rows)

\* The code after the await of a settled Load or Create runs.
LoadOrCreateHandled ==
    \/ \E r \in Answered("load") : LoadDone(r) /\ Render(rows)
    \/ \E r \in Answered("create") : AddDone(r) /\ Render(rows)

\* The operations that issue a Load or a Create: the mount, the add form,
\* and Rename and Delete, whose failure handlers call fetchTodos.  The
\* filter buttons, Toggle and ClearCompleted neither issue one nor write
\* loading.
NextLive ==
    \/ Mount /\ Render(rows)
    \/ \E v \in Drafts : SetNewTitle(v) /\ Render(rows)
    \/ Submit /\ Render(rows)
    \/ \E t \in Rows, d \in Drafts : RenameTodo(t.id, d) /\ Render(rows)
    \/ \E t \in Rows : DeleteTodo(t.id) /\ Render(rows)
    \/ \E r \in Sent({"load"}) : ServerList(r) /\ Render(rows)
    \/ \E r \in Sent({"create"}) : ServerCreate(r) /\ Render(rows)
    \/ \E r \in Sent({"toggle", "rename"}) : ServerUpdate(r) /\ Render(rows)
    \/ \E r \in Sent({"delete"}) : ServerDelete(r) /\ Render(rows)
    \/ \E r \in Sent(Fetches) : ServerRefuse(r) /\ Render(rows)
    \/ \E r \in Sent(Fetches), m \in RejectMessages : TransportFail(r, m) /\ Render(rows)
    \/ \E r \in Answered("load") : LoadDone(r) /\ Render(rows)
    \/ \E r \in Answered("create") : AddDone(r) /\ Render(rows)
    \/ \E r \in Answered("rename") : RenameDone(r) /\ Render(rows)
    \/ \E r \in Answered("delete") : DeleteDone(r) /\ Render(rows)

\* These operations where every Load and Create is eventually settled, and
\* where the event loop runs the code after an await once its promise has
\* settled.
SpecLive == Init /\ [][NextLive]_vars /\ WF_vars(LoadOrCreateResolves) /\ WF_vars(LoadOrCreateHandled)

(* ------------------------------- claims -------------------------------- *)
RowsWithId(id) == {i \in 1..Len(todos) : todos[i].id = id}

ItemSet(ts) == {ts[i] : i \in 1..Len(ts)}

\* Empty or only whitespace, read off the characters.
IsBlank(s) == \A i \in 1..Len(s) : s[i] = " "

NoneCompleted(ts) == \A i \in 1..Len(ts) : ~ts[i].completed

SomeDeleteFailed(r) == \E i \in 1..Len(r.st) : r.st[i] \in {"httpError", "netError"}

\* C1: when the last of a run of Toggles of one item, all of which failed
\* and none of which was interleaved with another rewrite of the item, has
\* had its failure handled, the item's completed flag is the one it had
\* before the first of them was issued.
C1_ToggleRevertExact ==
    (last.op = "toggleFail" /\ last.req.clean /\ TogglesOn(last.req.id) = {})
        => \A i \in RowsWithId(last.req.id) : todos[i].completed = last.req.base

\* C2: when clearCompleted finishes and one of its deletes failed (by status
\* or by transport), the error is the clear-failure message and the
\* Collection is the snapshot taken before the clear.
C2_ClearAllOrNothing ==
    (last.op \in {"clearOk", "clearFail"} /\ SomeDeleteFailed(last.req))
        => error = ClearFailed /\ todos = last.req.prev

\* C3: when the failure handler of a Delete has finished, a Load is in
\* flight and the error is the delete-failure message.
C3_DeleteFailureShown ==
    last.op = "deleteFail"
        => /\ \E r \in reqs : r.kind = "load" /\ r.cause = "delete"
           /\ error = DeleteFailed

\* C4: when the failure handler of a Rename has finished, the error is the
\* rename-failure message and a Load is in flight; when that Load succeeds
\* the Collection is the list the remote service returned.
C4_RenameFailureShown ==
    /\ last.op = "renameFail"
          => /\ \E r \in reqs : r.kind = "load" /\ r.cause = "rename"
             /\ error = RenameFailed
    /\ (last.op = "loadOk" /\ last.req.cause = "rename") => todos = last.req.data

\* C5: once a mutation has failed, nothing is in flight any more and the
\* compensating Load (if any) has succeeded, the Collection holds the items
\* of the remote service.
C5_ConvergesAfterFailure ==
    ( /\ reqs = {}
      /\ \/ last.op \in {"toggleFail", "clearFail"}
         \/ last.op = "clearOk" /\ SomeDeleteFailed(last.req)
         \/ last.op = "loadOk" /\ last.req.cause \in {"rename", "delete"} )
        => ItemSet(todos) = ItemSet(server)

\* C6: while a Load or a Create is in flight, loading is true.
C6_LoadingWhilePending ==
    (\E r \in reqs : r.kind \in {"load", "create"}) => loading

\* C7 as stated: when a Rename has completed successfully the item has the
\* trimmed title, whatever was interleaved with it.
C7_RenameRoundTrip ==
    last.op = "renameOk"
        => \A i \in RowsWithId(last.req.id) : todos[i].title = last.req.title

\* What a step of renameTodo may do to the Collection: the invocation with a
\* non-blank X rewrites the title of the rows with that id to trim(X) and
\* nothing else, the success handler rewrites nothing.
C7_RenameStep ==
    /\ (last'.op = "rename" /\ ~IsBlank(last'.req.title))
          => /\ Len(todos') = Len(todos)
             /\ \A i \in 1..Len(todos) :
                   todos'[i] = IF todos[i].id = last'.req.id
                               THEN [todos[i] EXCEPT !.title = Trim(last'.req.title)]
                               ELSE todos[i]
    /\ last'.op = "renameOk" => todos' = todos

\* A Rename that completed successfully with nothing else having rewritten
\* its rows meanwhile leaves them with the trimmed title.
C7_RenameUndisturbedState ==
    (last.op = "renameOk" /\ last.req.clean)
        => \A i \in RowsWithId(last.req.id) : todos[i].title = last.req.title

\* C7 as amended: invoking Rename(id, X) with non-blank X writes trim(X) into
\* the rows with that id and alters no other row; its success handler leaves
\* the Collection alone; and when it has completed successfully with no Load
\* response, no clearCompleted revert, no later Rename of the same item and
\* no Create response bringing an item of the same id handled in between,
\* every row with that id has title trim(X).
C7_RenameUndisturbed == []C7_RenameUndisturbedState /\ [][C7_RenameStep]_vars

\* C7: a Rename to 'aa' has completed undisturbed beside another item.
C7_Witness ==
    /\ last.op = "renameOk"
    /\ last.req.clean
    /\ \E i \in RowsWithId(last.req.id) : todos[i].title = <<"a", "a">>
    /\ \E i \in 1..Len(todos) : todos[i].id # last.req.id

C8_CreateStep ==
    /\ last'.op = "addOk"
          => todos' = <<last'.req.data[1]>> \o todos /\ newTitle' = <<>>
    /\ last'.op = "addFail"
          => /\ todos' = todos
             /\ last'.req.phase = "httpError" => error' = AddFailed
             /\ last'.req.phase = "netError"
                   => error' = last'.req.msg /\ error' \in RejectMessages
    /\ last'.op = "add" => todos' = todos

C9_BlankCreateStep ==
    (last'.op = "add" /\ IsBlank(last'.req.title))
        => reqs' = reqs /\ todos' = todos /\ loading' = loading /\ error' = error

\* C9: Create invoked with an empty or whitespace-only draft issues no
\* request and changes neither the Collection, nor loading, nor the error.
C9_BlankCreateIsNoop == [][C9_BlankCreateStep]_vars

\* C9: addTodo has just run on a whitespace-only draft while an error shows.
C9_Witness ==
    /\ last.op = "add"
    /\ last.req.title \in {<<" ">>, <<" ", " ">>}
    /\ error # NoError

\* A step of clearCompleted on a Collection without completed items.
C10_ClearNothingStep ==
    (last'.op = "clear" /\ NoneCompleted(todos))
        => reqs' = reqs /\ todos' = todos /\ error' = error

\* C10: ClearCompleted invoked while no item is completed issues no request
\* and changes neither the Collection nor the error.
C10_ClearNothingIsNoop == [][C10_ClearNothingStep]_vars

\* C10: clearCompleted has just run on a non-empty Collection without
\* completed items while an error shows.
C10_Witness ==
    /\ last.op = "clear"
    /\ NoneCompleted(todos)
    /\ todos # <<>>
    /\ error # NoError

\* C11: the step of toggleTodo up to its await gives every row with the
\* toggled id the flag it was called with, leaves every other row and the
\* order of the Collection as they were, and leaves loading alone.
C11_ToggleOptimistic ==
    [][last'.op = "toggle"
         => /\ Len(todos') = Len(todos)
            /\ \A i \in 1..Len(todos) :
                  todos'[i] = IF todos[i].id = last'.req.id
                              THEN [todos[i] EXCEPT !.completed = last'.req.completed]
                              ELSE todos[i]
            /\ \E i \in 1..Len(todos') :
                  todos'[i].id = last'.req.id /\ todos'[i].completed = last'.req.completed
            /\ loading' = loading]_vars

\* C11: toggleTodo has just set an item completed beside an item that is
\* not, while a Load or Create keeps loading true.
C11_Witness ==
    /\ last.op = "toggle"
    /\ last.req.completed
    /\ \E i \in 1..Len(todos) : todos[i].id # last.req.id /\ ~todos[i].completed
    /\ loading

\* The predicate a filter stands for.
Selects(f, t) ==
    \/ f = "all"
    \/ f = "active" /\ ~t.completed
    \/ f = "completed" /\ t.completed

\* The positions of the Collection the active filter selects, and the k-th
\* of them in the Collection's order.
Kept == {i \in 1..Len(todos) : Selects(filter, todos[i])}

KeptAt(k) == CHOOSE i \in Kept : Cardinality({j \in Kept : j < i}) = k - 1

\* C12: in every reachable state filtered is the sub-sequence of the
\* Collection, in the Collection's order, of the items the filter selects,
\* and remaining is the number of items with completed false whatever the
\* filter.
C12_DerivedViews ==
    /\ Len(filtered) = Cardinality(Kept)
    /\ \A k \in 1..Len(filtered) : filtered[k] = todos[KeptAt(k)]
    /\ remaining = Cardinality({i \in 1..Len(todos) : ~todos[i].completed})

\* C12: the filter is 'active' over one completed and one active item: the
\* view holds exactly the active one and remaining is 1.
C12_Witness ==
    /\ filter = "active"
    /\ Len(todos) = 2
    /\ \E i, j \in 1..2 : todos[i].completed /\ ~todos[j].completed
                          /\ filtered = <<todos[j]>>
    /\ remaining = 1

\* The step is a mutating handler that starts an attempt.
C13_StartsAttempt ==
    \/ last'.op \in {"toggle", "delete"}
    \/ last'.op \in {"add", "rename"} /\ ~IsBlank(last'.req.title)
    \/ last'.op = "clear" /\ ~NoneCompleted(todos)

\* C13: a step of Create with a non-blank title, Toggle, Rename with a
\* non-blank title, Delete, or ClearCompleted with a completed item leaves
\* the error empty and its request issued: the error that showed before the
\* attempt shows no more.
C13_AttemptClearsError ==
    [][C13_StartsAttempt
         => /\ error' = NoError
            /\ \E r \in reqs' \ reqs : r.phase = "sent" /\ r.rid \in FreeRids]_vars

\* C13: the mount Load has failed (the Collection is empty after it, so its
\* error was on display), a title was typed, and addTodo has just started a
\* Create: the error is gone.
C13_Witness ==
    /\ last.op = "add"
    /\ ~IsBlank(last.req.title)
    /\ ops = 2
    /\ todos = <<>>
    /\ error = NoError

\* C17: the failure handler of a Toggle keeps the length and the order of
\* the Collection, leaves every row with another id as it was, changes at
\* most the completed flag of the rows with its id, and with no such row
\* leaves the Collection as it was (nothing is inserted).
C17_ToggleFailureFrame ==
    [][last'.op = "toggleFail"
         => /\ Len(todos') = Len(todos)
            /\ \A i \in 1..Len(todos) :
                  IF todos[i].id = last'.req.id
                  THEN todos'[i] = [todos[i] EXCEPT !.completed = todos'[i].completed]
                  ELSE todos'[i] = todos[i]
            /\ RowsWithId(last'.req.id) = {} => todos' = todos]_vars

\* C17: the failure of a Toggle has been handled after its item had left the
\* Collection, and another item is still there.
C17_Witness ==
    /\ last.op = "toggleFail"
    /\ RowsWithId(last.req.id) = {}
    /\ todos # <<>>

\* C19: no two rows of the Collection carry the same id (the remote service
\* here numbers created items apart and lists every item once).
C19_UniqueIds ==
    \A i, j \in 1..Len(todos) : todos[i].id = todos[j].id => i = j

LoadsAndCreates(rs) == {r \in rs : r.kind \in {"load", "create"}}

Issued(rs) == {r \in rs : r.phase = "sent"}

\* Only the code after the await of a Load or Create sets loading false,
\* and every step that issues a Load or Create leaves loading true.
C18_LoadingStep ==
    /\ (loading /\ ~loading') => last'.op \in {"loadOk", "loadFail", "addOk", "addFail"}
    /\ LoadsAndCreates(Issued(reqs' \ reqs)) # {} => loading'

\* C18: with every Load and Create settled in the end, loading true leads to
\* loading false, and loading is false whenever no Load or Create is in
\* flight; loading is set false by no step other than the completion of a
\* Load or Create, so with one that never resolves and none other completing
\* it stays true.
C18_LoadingSettles ==
    /\ loading ~> ~loading
    /\ [](LoadsAndCreates(reqs) = {} => ~loading)
    /\ [][C18_LoadingStep]_vars

\* C18: a failed Load has been handled, nothing is in flight and loading is
\* false again.
C18_Witness ==
    /\ last.op = "loadFail"
    /\ reqs = {}
    /\ ~loading

\* C14 as stated: the Rename callback is invoked by a confirm only with a
\* non-blank draft, and what it is handed is the trimmed draft.
C14_ConfirmTrims ==
    last.op = "rename"
        => ~IsBlank(last.req.title) /\ last.req.title = Trim(last.req.title)

\* What Enter does in a row that is being edited.
C14_ConfirmStep ==
    last'.op = "rename"
        => LET id == last'.req.id
               draft == rows[id].title
           IN  /\ rows[id].editing
               /\ id \in DOMAIN rows' /\ ~rows'[id].editing
               /\ last'.req.title = draft
               /\ Len(todos') = Len(todos)
               /\ IF IsBlank(draft)
                  THEN todos' = todos /\ reqs' = reqs
                  ELSE /\ \E r \in Issued(reqs' \ reqs) :
                             r.kind = "rename" /\ r.id = id /\ r.title = Trim(draft)
                       /\ \A i \in 1..Len(todos) :
                             todos'[i] = IF todos[i].id = id
                                         THEN [todos[i] EXCEPT !.title = Trim(draft)]
                                         ELSE todos[i]

\* C14 as amended: a confirm in the editing state moves the row to viewing
\* and calls the Rename callback whatever the draft, handing it the draft as
\* typed; renameTodo then does nothing when the trimmed draft is empty, and
\* otherwise writes the trimmed draft into the item and issues the request
\* with the trimmed draft.
C14_ConfirmHandsDraft == [][C14_ConfirmStep]_vars

\* C14: a row has just been confirmed with a draft of spaces only.
C14_Witness ==
    /\ last.op = "rename"
    /\ last.req.title \in {<<" ">>, <<" ", " ">>}
    /\ last.req.id \in DOMAIN rows
    /\ ~rows[last.req.id].editing

\* What Escape and the loss of focus do in a row that is being edited.
C15_CancelStep ==
    last'.op \in {"escape", "blur"}
        => LET id == last'.req.id
           IN  /\ rows[id].editing
               /\ id \in DOMAIN rows' /\ ~rows'[id].editing
               /\ rows'[id].title = rows[id].shown
               /\ rows'[id].title \in TitlesIn(todos', id)
               /\ reqs' = reqs /\ todos' = todos /\ server' = server
               /\ error' = error /\ loading' = loading

\* C15: a cancel action or the loss of focus in the editing state moves the
\* row to viewing and sets its draft to the title the item has in the
\* Collection; no Rename is invoked: no request is issued and the
\* Collection, the error and loading stay as they are.
C15_CancelDiscards == [][C15_CancelStep]_vars

\* C15: a draft 'aa' typed over the title 'a' has just been discarded by
\* Escape.
C15_Witness ==
    /\ last.op = "escape"
    /\ last.req.title = <<"a", "a">>
    /\ last.req.id \in DOMAIN rows
    /\ rows[last.req.id] = [editing |-> FALSE, title |-> <<"a">>, shown |-> <<"a">>]

\* What a step does to the draft of a row that stays mounted while the
\* title it is handed changes.
C16_ResyncStep ==
    \A id \in DOMAIN rows \cap DOMAIN rows' :
        rows'[id].shown # rows[id].shown
            => /\ rows'[id].title = rows'[id].shown
               /\ rows'[id].editing = IF last'.op = "rename" /\ last'.req.id = id
                                      THEN FALSE
                                      ELSE rows[id].editing

\* C16: the title a mounted row is handed is a title its item has in the
\* Collection, and whenever it changes (by the optimistic step of a Rename
\* or by a Load) the row's draft becomes the new title, in the viewing and
\* in the editing state alike; the resynchronisation leaves the editing
\* flag alone: it is unchanged over the step, except that the row's own
\* confirm, which causes the optimistic step, has moved it to viewing.
C16_DraftFollowsTitle ==
    /\ [](\A id \in DOMAIN rows : rows[id].shown \in TitlesIn(filtered, id))
    /\ [][C16_ResyncStep]_vars

\* C16: a Load has just replaced the title 'aa' of an item by 'a' while the
\* item's row is being edited: the draft is 'a' and the row is still being
\* edited.
C16_Witness ==
    /\ last.op = "loadOk"
    /\ \E id \in DOMAIN rows :
          /\ TitlesIn(last.req.prev, id) = {<<"a", "a">>}
          /\ rows[id] = [editing |-> TRUE, title |-> <<"a">>, shown |-> <<"a">>]

\* C20: the draft of every row in the viewing state is the title its item
\* has in the Collection.
C20_ViewingDraftIsTitle ==
    \A id \in DOMAIN rows : ~rows[id].editing => rows[id].title \in TitlesIn(todos, id)
====
